---- MODULE Spec2Model ----
(***************************************************************************)
(* Model of the device scanner of qubesome/libudev (scanner.go).           *)
(*                                                                         *)
(* A string is a sequence of tokens: a path "a/b" is <<"a", "/", "b">>,    *)
(* a marker line "k=x" is <<"k", "=", "x">>.  A file name such as          *)
(* "uevent" or "dev" is one token: no operation of the scanner looks       *)
(* inside a name.  A file is a sequence of lines.                          *)
(***************************************************************************)
EXTENDS Naturals, Sequences, FiniteSets, TLC

VARIABLES
    dirs,        \* devices root: the directories that exist (paths relative to the root)
    uevents,     \* devices root: directory -> lines of its uevent file
    devs,        \* devices root: directory -> content of its dev file
    udevData,    \* udev data root: file name -> lines of the record
    faults,      \* the I/O failures the file system answers with during this scan
    matcher,     \* s.opts.matcher, as set by WithMatcher (NoMatcher when unset)
    pc,          \* position of ScanDevices: "start", "walk", "link", "done"
    stack,       \* fs.WalkDir: the directory entries still to visit, in visiting order
    devicesMap,  \* devicesMap: Devpath -> device
    devices,     \* devices: the result list (each element points into devicesMap by Devpath)
    err          \* the error ScanDevices returns

vars == <<dirs, uevents, devs, udevData, faults, matcher, pc, stack, devicesMap, devices, err>>

inputs == <<dirs, uevents, devs, udevData, faults, matcher>>

----------------------------------------------------------------------------
(* Bounds of the model.                                                    *)

\* Deepest directory nesting below the devices root.
MaxDepth == 2

\* Most marker-bearing directories in one tree of the linker's inputs.
MaxDevices == 3

\* Most lines in a marker file or a runtime-database record.
MaxLines == 2

\* Directory names, in the order fs.ReadDir sorts them.
SegSeq == <<"a", "b">>

Segs == {SegSeq[i] : i \in 1..Len(SegSeq)}

----------------------------------------------------------------------------
(* Strings.                                                                *)

\* Index of the first token of s equal to c, 0 when there is none.
IndexOf(s, c) ==
    IF \E i \in 1..Len(s) : s[i] = c
    THEN CHOOSE i \in 1..Len(s) : s[i] = c /\ \A j \in 1..(i - 1) : s[j] # c
    ELSE 0

\* Index of the last token of s equal to c, 0 when there is none.
LastIndexOf(s, c) ==
    IF \E i \in 1..Len(s) : s[i] = c
    THEN CHOOSE i \in 1..Len(s) : s[i] = c /\ \A j \in (i + 1)..Len(s) : s[j] # c
    ELSE 0

\* strings.Cut: s around the first sep.
Cut(s, sep) ==
    LET i == IndexOf(s, sep)
    IN  IF i = 0
        THEN [before |-> s, after |-> <<>>, found |-> FALSE]
        ELSE [before |-> SubSeq(s, 1, i - 1), after |-> SubSeq(s, i + 1, Len(s)), found |-> TRUE]

\* strings.Split: the substrings of s between the separators.
RECURSIVE Split(_, _)
Split(s, sep) ==
    LET c == Cut(s, sep)
    IN  IF c.found THEN <<c.before>> \o Split(c.after, sep) ELSE <<s>>

\* strings.HasSuffix
HasSuffix(s, suffix) ==
    /\ Len(s) >= Len(suffix)
    /\ SubSeq(s, Len(s) - Len(suffix) + 1, Len(s)) = suffix

\* strings.TrimSuffix: s without the suffix when it ends with it, else s.
TrimSuffix(s, suffix) ==
    IF HasSuffix(s, suffix) THEN SubSeq(s, 1, Len(s) - Len(suffix)) ELSE s

\* The cutset of strings.Trim(s, "\n\r\t ").
Whitespace == {"\n", "\r", "\t", " "}

\* strings.Trim: s without its leading and trailing tokens of the cutset.
RECURSIVE Trim(_, _)
Trim(s, cutset) ==
    IF s = <<>> THEN s
    ELSE IF Head(s) \in cutset THEN Trim(Tail(s), cutset)
    ELSE IF s[Len(s)] \in cutset THEN Trim(SubSeq(s, 1, Len(s) - 1), cutset)
    ELSE s

\* filepath.Dir of a relative path: all but the last element, "." when there is one element.
Dir(path) ==
    LET i == LastIndexOf(path, "/")
    IN  IF i = 0 THEN <<".">> ELSE SubSeq(path, 1, i - 1)

\* path.Join(dir, name) as fs.WalkDir uses it: Join(".", "a") is "a".
Join(dir, name) ==
    IF dir = <<".">> THEN <<name>> ELSE dir \o <<"/", name>>

----------------------------------------------------------------------------
(* Maps.                                                                   *)

EmptyMap == [x \in {} |-> <<>>]

\* m[k] = v
MapSet(m, k, v) == [x \in (DOMAIN m) \cup {k} |-> IF x = k THEN v ELSE m[x]]

----------------------------------------------------------------------------
(* The file systems.                                                       *)

\* The directory the walk starts at.
Root == <<".">>

\* The directories of depth at most n below the root (the root included).
RECURSIVE DirsUpTo(_)
DirsUpTo(n) ==
    IF n = 0 THEN {Root}
    ELSE LET up == DirsUpTo(n - 1)
         IN  up \cup {Join(d, s) : d \in up, s \in Segs}

AllDirs == DirsUpTo(MaxDepth)

\* d and the directories above it, up to the root.
RECURSIVE Ancestry(_)
Ancestry(d) == IF d = Root THEN {Root} ELSE {d} \cup Ancestry(Dir(d))

\* The kinds of I/O failure.
FaultKinds == {"statRoot", "listDir", "listAttrs", "ueventGone", "ueventErr", "devErr", "recordErr"}

Fault(kind, at) == [kind |-> kind, at |-> at] \in faults

\* The pointer that points at no device.
NoDevice == <<>>

Nil == "nil"

----------------------------------------------------------------------------
(* Devices and the enrichment pipeline.                                    *)

\* types.Device as the walk creates it.
NewDevice(devpath) ==
    [Devpath |-> devpath, Env |-> EmptyMap, Attrs |-> EmptyMap, Tags |-> <<>>,
     UsecInitialized |-> <<>>, Parent |-> NoDevice, Children |-> <<>>]

\* readAttrs: the attribute files beside the marker.  In this model a device
\* directory holds at most one such file, dev; a file that cannot be read is skipped.
readAttrs(path) ==
    IF Fault("listAttrs", path)
    THEN [attrs |-> EmptyMap, err |-> "EIO"]
    ELSE [attrs |-> IF path \in DOMAIN devs /\ ~Fault("devErr", path)
                    THEN MapSet(EmptyMap, <<"dev">>, Trim(devs[path], Whitespace))
                    ELSE EmptyMap,
          err |-> Nil]

\* The loop of readUeventFile: Env[k] = v for each line k=v, in order.
RECURSIVE ScanUevent(_, _)
ScanUevent(lines, env) ==
    IF lines = <<>> THEN env
    ELSE LET c == Cut(Head(lines), "=")
         IN  ScanUevent(Tail(lines), IF c.found THEN MapSet(env, c.before, c.after) ELSE env)

\* readDevFile: the trimmed content of the dev file, "" when there is none.
readDevFile(path) ==
    LET dir == Dir(path)
    IN  IF dir \notin DOMAIN devs THEN [s |-> <<>>, err |-> Nil]
        ELSE IF Fault("devErr", dir) THEN [s |-> <<>>, err |-> "EACCES"]
        ELSE [s |-> Trim(devs[dir], Whitespace), err |-> Nil]

\* The loop of readUdevInfo over the record's lines.
RECURSIVE ScanUdevInfo(_, _)
ScanUdevInfo(lines, d) ==
    IF lines = <<>> THEN d
    ELSE LET c == Cut(Head(lines), ":")
             e == Cut(c.after, "=")
             d1 == IF ~c.found THEN d
                   ELSE IF c.before = <<"I">> THEN [d EXCEPT !.UsecInitialized = c.after]
                   ELSE IF c.before = <<"G">> THEN [d EXCEPT !.Tags = Append(@, c.after)]
                   ELSE IF c.before = <<"E">> /\ e.found
                        THEN [d EXCEPT !.Env = MapSet(@, e.before, e.after)]
                   ELSE d
         IN  ScanUdevInfo(Tail(lines), d1)

\* The name readUdevInfo looks the record up under: "c" followed by devString.
UdevInfoPath(devString) == <<"c">> \o devString

\* readUdevInfo: merge the record found under "c"+devString into d.
readUdevInfo(devString, d) ==
    LET path == UdevInfoPath(devString)
    IN  IF path \notin DOMAIN udevData THEN [dev |-> d, err |-> Nil]
        ELSE IF Fault("recordErr", path) THEN [dev |-> d, err |-> "EACCES"]
        ELSE [dev |-> ScanUdevInfo(udevData[path], d), err |-> Nil]

\* readUeventFile: the marker's pairs, then the dev file, then the record.
readUeventFile(path, device) ==
    LET dir == Dir(path)
    IN  IF dir \notin DOMAIN uevents \/ Fault("ueventGone", dir)
        THEN [dev |-> device, err |-> Nil]
        ELSE IF Fault("ueventErr", dir) THEN [dev |-> device, err |-> "EACCES"]
        ELSE LET d1 == [device EXCEPT !.Env = ScanUevent(uevents[dir], @)]
                 ds == readDevFile(Join(Dir(path), "dev"))
             IN  IF ds.err # Nil THEN [dev |-> d1, err |-> ds.err]
                 ELSE readUdevInfo(ds.s, d1)

----------------------------------------------------------------------------
(* The walk.                                                               *)

\* What fs.ReadDir lists in directory d, sorted by name.
Entries(d) ==
    LET subdirs == [i \in 1..Len(SegSeq) |->
                        [path |-> Join(d, SegSeq[i]), name |-> SegSeq[i], isDir |-> TRUE]]
        files == << [path |-> Join(d, "dev"), name |-> "dev", isDir |-> FALSE],
                    [path |-> Join(d, "uevent"), name |-> "uevent", isDir |-> FALSE] >>
        Present(e) == IF e.isDir THEN e.path \in dirs
                      ELSE IF e.name = "dev" THEN d \in DOMAIN devs
                      ELSE d \in DOMAIN uevents
    IN  SelectSeq(subdirs \o files, Present)

\* The callback ScanDevices hands to fs.WalkDir, for an entry read without
\* error.  The table readAttrs returns is the device's Attrs (as in getDevice).
WalkFn(e, dm) ==
    IF e.isDir \/ e.name # "uevent" THEN [dm |-> dm, err |-> Nil]
    ELSE LET a == readAttrs(Dir(e.path))
             device == [NewDevice(Dir(e.path)) EXCEPT !.Attrs = a.attrs]
             r == readUeventFile(e.path, device)
         IN  IF a.err # Nil THEN [dm |-> dm, err |-> a.err]
             ELSE IF r.err # Nil THEN [dm |-> dm, err |-> Nil]
             ELSE [dm |-> MapSet(dm, r.dev.Devpath, r.dev), err |-> Nil]

\* fs.WalkDir on ".": a failed Stat or ReadDir of the root is handed to the
\* callback, which answers nil, and the walk goes on with nothing to visit.
WalkStart ==
    /\ pc = "start"
    /\ stack' = IF Fault("statRoot", Root) \/ Fault("listDir", Root)
                THEN <<>> ELSE Entries(Root)
    /\ pc' = "walk"
    /\ UNCHANGED <<inputs, devicesMap, devices, err>>

\* One entry of the walk: the callback, then for a directory its listing.
WalkEntry ==
    /\ pc = "walk"
    /\ stack # <<>>
    /\ LET e == Head(stack)
           r == WalkFn(e, devicesMap)
       IN  /\ devicesMap' = r.dm
           /\ err' = r.err
           /\ stack' = IF r.err # Nil THEN <<>>
                       ELSE IF e.isDir /\ ~Fault("listDir", e.path)
                            THEN Entries(e.path) \o Tail(stack)
                       ELSE Tail(stack)
    /\ UNCHANGED <<inputs, pc, devices>>

\* fs.WalkDir has returned: an error ends the scan with no devices.
WalkDone ==
    /\ pc = "walk"
    /\ stack = <<>>
    /\ pc' = IF err # Nil THEN "done" ELSE "link"
    /\ UNCHANGED <<inputs, stack, devicesMap, devices, err>>

----------------------------------------------------------------------------
(* The tree linker.                                                        *)

\* The inner loop of "make tree" from index i down: the first devpath, after
\* trimming "/"+parts[i], that is a key of the map; NoDevice when the loop ends.
RECURSIVE FindParent(_, _, _, _)
FindParent(dm, devpath, parts, i) ==
    IF i < 1 THEN NoDevice
    ELSE LET trimmed == TrimSuffix(devpath, <<"/">> \o parts[i])
         IN  IF trimmed \in DOMAIN dm THEN trimmed
             ELSE FindParent(dm, trimmed, parts, i - 1)

\* LinkOne with the append to the parent's Children left out.
LinkOneNoAppend(dm, k) ==
    LET parts == Split(k, "/")
        p == FindParent(dm, k, parts, Len(parts))
    IN  IF p = NoDevice THEN dm ELSE [dm EXCEPT ![k].Parent = p]

\* LinkOne looking the parent up among the devices already in the result
\* list instead of in the whole map.
LinkOneAmongLinked(dm, k) ==
    LET parts == Split(k, "/")
        seen == {devices[i] : i \in 1..Len(devices)}
        p == FindParent([x \in seen |-> dm[x]], k, parts, Len(parts))
    IN  IF p = NoDevice THEN dm
        ELSE [dm EXCEPT ![k].Parent = p, ![p].Children = Append(@, k)]

\* One iteration of the range over devicesMap, for the device keyed k.
LinkOne(dm, k) ==
    LET parts == Split(k, "/")
        p == FindParent(dm, k, parts, Len(parts))
    IN  IF p = NoDevice THEN dm
        ELSE [dm EXCEPT ![k].Parent = p, ![p].Children = Append(@, k)]

\* The keys the range loop has visited.
Linked == {devices[i] : i \in 1..Len(devices)}

\* The range over devicesMap visits the keys in an order Go does not fix.
LinkDevice ==
    /\ pc = "link"
    /\ \E k \in (DOMAIN devicesMap) \ Linked :
          /\ devicesMap' = LinkOne(devicesMap, k)
          /\ devices' = Append(devices, k)
    /\ UNCHANGED <<inputs, pc, stack, err>>

\* return devices, err
Return ==
    /\ pc = "link"
    /\ Linked = DOMAIN devicesMap
    /\ pc' = "done"
    /\ UNCHANGED <<inputs, stack, devicesMap, devices, err>>

Next == WalkStart \/ WalkEntry \/ WalkDone \/ LinkDevice \/ Return

\* The devices ScanDevices returns, once it has returned.
Returned == [i \in 1..Len(devices) |-> devicesMap[devices[i]]]

----------------------------------------------------------------------------
(* The matcher (package matcher): rules combined under a strategy.         *)

NoMatcher == [strategy |-> "none", rules |-> <<>>]

\* One rule against one device: Attrs[key] = value or Env[key] = value.
RuleMatches(rule, d) ==
    LET m == IF rule.kind = "attr" THEN d.Attrs ELSE d.Env
    IN  rule.key \in DOMAIN m /\ m[rule.key] = rule.value

\* AND: every rule matches; OR: at least one does.
Matches(m, d) ==
    IF m.strategy = "AND"
    THEN \A i \in 1..Len(m.rules) : RuleMatches(m.rules[i], d)
    ELSE \E i \in 1..Len(m.rules) : RuleMatches(m.rules[i], d)

----------------------------------------------------------------------------
(* Initial states: the scanner as NewScanner leaves it, over the file      *)
(* systems of one family of inputs.                                        *)

\* The sequences over S of length at most n.
SeqsUpTo(S, n) == UNION {[1..k -> S] : k \in 0..n}

\* Lines of a marker file: pairs, a repeated key, a second "=", a line without "=".
UeventLines ==
    { <<"k", "=", "x">>, <<"k", "=", "y", "=", "x">>, <<"j", "=", "x">>, <<"k">> }

\* Lines of a runtime-database record: E, G and I entries, an E entry without
\* "=", a line without ":".
RecordLines ==
    { <<"E", ":", "k", "=", "z">>, <<"E", ":", "j", "=", "w", "=", "z">>, <<"E", ":", "k">>,
      <<"G", ":", "t">>, <<"I", ":", "9">>, <<"k", "=", "z">> }

\* The content of a dev file: a device number and the newline after it.
DevContent == <<"1", "\n">>

\* The scan has not begun.
Fresh ==
    /\ pc = "start"
    /\ stack = <<>>
    /\ devicesMap = EmptyMap
    /\ devices = <<>>
    /\ err = Nil

\* Trees: any set of at most MaxDevices marker-bearing directories.
InitTree ==
    /\ \E markers \in {m \in SUBSET AllDirs : Cardinality(m) <= MaxDevices} :
          /\ dirs = {Root} \cup UNION {Ancestry(d) : d \in markers}
          /\ uevents = [d \in markers |-> << <<"k", "=", "x">> >>]
    /\ devs = EmptyMap
    /\ udevData = EmptyMap
    /\ faults = {}
    /\ matcher = NoMatcher
    /\ Fresh

\* Contents: one device directory, any marker file, with or without a dev
\* file, and a runtime database holding at most one record.
InitEnrich ==
    /\ dirs = {Root, <<"a">>}
    /\ \E f \in SeqsUpTo(UeventLines, MaxLines) : uevents = [d \in {<<"a">>} |-> f]
    /\ devs \in {EmptyMap, [d \in {<<"a">>} |-> DevContent]}
    /\ \/ udevData = EmptyMap
       \/ \E n \in {<<"c">>, <<"c", "1">>}, r \in SeqsUpTo(RecordLines, MaxLines) :
             udevData = [x \in {n} |-> r]
    /\ faults = {}
    /\ matcher = NoMatcher
    /\ Fresh

\* The places an I/O failure can strike.
FaultSites ==
    {[kind |-> "statRoot", at |-> Root], [kind |-> "recordErr", at |-> <<"c", "1">>]}
    \cup [kind : {"listDir", "listAttrs", "ueventGone", "ueventErr", "devErr"}, at : AllDirs]

\* Failures: at most two device directories, each with a dev file and a
\* record, and at most one I/O failure during the scan.
InitFault ==
    /\ \E markers \in {m \in SUBSET AllDirs : Cardinality(m) <= 2} :
          /\ dirs = {Root} \cup UNION {Ancestry(d) : d \in markers}
          /\ uevents = [d \in markers |-> << <<"k", "=", "x">> >>]
          /\ devs = [d \in markers |-> DevContent]
    /\ udevData = [x \in {<<"c", "1">>} |-> << <<"G", ":", "t">>, <<"E", ":", "k", "=", "z">> >>]
    /\ faults \in {{}} \cup {{f} : f \in FaultSites}
    /\ matcher = NoMatcher
    /\ Fresh

\* The matchers handed to WithMatcher.
Matchers ==
    { [strategy |-> "AND", rules |-> << [kind |-> "env", key |-> <<"k">>, value |-> <<"x">>] >>],
      [strategy |-> "OR",  rules |-> << [kind |-> "env", key |-> <<"k">>, value |-> <<"x">>],
                                        [kind |-> "attr", key |-> <<"dev">>, value |-> <<"1">>] >>] }

\* Matching: two device directories with any short marker files, one with a
\* dev file, scanned with and without a matcher.
InitMatch ==
    /\ dirs = {Root, <<"a">>, <<"a", "/", "b">>}
    /\ uevents \in [{<<"a">>, <<"a", "/", "b">>} -> SeqsUpTo(UeventLines, 1)]
    /\ devs \in {EmptyMap, [d \in {<<"a">>} |-> DevContent]}
    /\ udevData = EmptyMap
    /\ faults = {}
    /\ matcher \in {NoMatcher} \cup Matchers
    /\ Fresh

Init == InitTree \/ InitEnrich \/ InitFault \/ InitMatch

Spec == Init /\ [][Next]_vars

----------------------------------------------------------------------------
(* Vocabulary of the properties.                                           *)

\* ScanDevices has returned a device list and a nil error.
ReturnedOk == pc = "done" /\ err = Nil

\* The Devpaths of the returned devices.
ReturnedPaths == {devices[i] : i \in 1..Len(devices)}

\* p is a proper prefix of d that ends at a path-segment boundary.
IsStrictAncestor(p, d) ==
    /\ Len(p) < Len(d)
    /\ SubSeq(d, 1, Len(p)) = p
    /\ d[Len(p) + 1] = "/"

\* Number of path segments of a Devpath.
Depth(k) == Len(Split(k, "/"))

\* Following Parent from k reaches a device without Parent within n steps.
RECURSIVE ReachesRoot(_, _, _)
ReachesRoot(dm, k, n) ==
    IF dm[k].Parent = NoDevice THEN TRUE
    ELSE IF n = 0 THEN FALSE
    ELSE ReachesRoot(dm, dm[k].Parent, n - 1)

\* The references a device holds in Children, as a set.
ChildSet(d) == {d.Children[i] : i \in 1..Len(d.Children)}

\* The map as the walk leaves it, before any device is linked.
WalkOutput ==
    [k \in DOMAIN devicesMap |-> [devicesMap[k] EXCEPT !.Parent = NoDevice, !.Children = <<>>]]

\* The orders in which a range over a map with keys S can visit them.
Orders(S) ==
    {o \in [1..Cardinality(S) -> S] : \A i, j \in 1..Cardinality(S) : o[i] = o[j] => i = j}

\* The range loop of "make tree" run over dm in the given order.
RECURSIVE MakeTree(_, _)
MakeTree(dm, order) ==
    IF order = <<>> THEN dm ELSE MakeTree(LinkOne(dm, Head(order)), Tail(order))

\* The value of the last of lines[1..i] that reads key, sep, value.
RECURSIVE LastValue(_, _, _, _)
LastValue(lines, sep, key, i) ==
    IF i < 1 THEN [found |-> FALSE, value |-> <<>>]
    ELSE LET c == Cut(lines[i], sep)
         IN  IF c.found /\ c.before = key THEN [found |-> TRUE, value |-> c.after]
             ELSE LastValue(lines, sep, key, i - 1)

\* The I/O failures that strike one entry: a device directory's listing for
\* its attributes, a marker or dev file, a record.
EntryFaultKinds == {"listAttrs", "ueventGone", "ueventErr", "devErr", "recordErr"}

\* The record a device directory's dev file names, NoRecord without a dev file.
NoRecord == <<"none">>

RecordNameOf(d) ==
    IF d \in DOMAIN devs THEN <<"c">> \o Trim(devs[d], Whitespace) ELSE NoRecord

\* The lines of the runtime-database record of device directory d.
RecordLinesOf(d) ==
    IF RecordNameOf(d) \in DOMAIN udevData THEN udevData[RecordNameOf(d)] ELSE <<>>

\* The E entries of a record, as marker-style lines k=v.
RECURSIVE ELines(_)
ELines(lines) ==
    IF lines = <<>> THEN <<>>
    ELSE LET c == Cut(Head(lines), ":")
         IN  (IF c.found /\ c.before = <<"E">> THEN <<c.after>> ELSE <<>>) \o ELines(Tail(lines))

\* The lines of the marker file of device directory d, none once it is gone.
MarkerLinesOf(d) ==
    IF d \in DOMAIN uevents /\ ~Fault("ueventGone", d) THEN uevents[d] ELSE <<>>

\* The keys a line of the model's files can hold, and the empty key.
LineKeys == {<<"k">>, <<"j">>, <<"E">>, <<"G">>, <<"I">>, <<>>}

\* env maps each key to the value of the last line key=... of elines when
\* there is one, else of marker, and holds no other key.
EnvIs(env, marker, elines) ==
    \A key \in LineKeys \cup DOMAIN env :
        LET r == LastValue(elines, "=", key, Len(elines))
            m == LastValue(marker, "=", key, Len(marker))
        IN  IF r.found THEN key \in DOMAIN env /\ env[key] = r.value
            ELSE IF m.found THEN key \in DOMAIN env /\ env[key] = m.value
            ELSE key \notin DOMAIN env

\* A failure of this scan strikes device directory d or the record it names.
Struck(d) == \E f \in faults : f.at = d \/ f.at = RecordNameOf(d)

----------------------------------------------------------------------------
(* The claims.                                                             *)

\* C1: after ScanDevices has linked the tree, following Parent from any
\* returned device reaches a device with no Parent within as many steps as
\* the device's path has segments; no device is its own Parent or ancestor.
C1_ForestAcyclic ==
    ReturnedOk => \A k \in ReturnedPaths : ReachesRoot(devicesMap, k, Depth(k))

\* C2: a returned device's Parent, when set, is a strict path-prefix ancestor
\* of the device and the longest one among the returned devices; when unset,
\* no returned device is a strict ancestor of the device.
C2_NearestAncestor ==
    ReturnedOk =>
        \A k \in ReturnedPaths :
            LET p == devicesMap[k].Parent
            IN  IF p # NoDevice
                THEN /\ IsStrictAncestor(p, k)
                     /\ \A o \in ReturnedPaths : IsStrictAncestor(o, k) => Len(o) <= Len(p)
                ELSE \A o \in ReturnedPaths : ~IsStrictAncestor(o, k)

\* C3: a scanner constructed with WithMatcher(m) returns exactly the devices
\* of the unfiltered scan that match m: every returned device satisfies m.
C3_MatcherFilters ==
    ReturnedOk /\ matcher # NoMatcher =>
        ReturnedPaths = {k \in DOMAIN devicesMap : Matches(matcher, devicesMap[k])}

\* C4: when the devices root cannot be stat'ed or listed at the top level,
\* ScanDevices returns a non-nil error.
C4_RootFailureSurfaced ==
    pc = "done" /\ (Fault("statRoot", Root) \/ Fault("listDir", Root)) => err # Nil

\* C5: a failure confined to one entry below the root never makes ScanDevices
\* return an error, and every marker-bearing directory the failure does not
\* strike is still returned as a device.
C5_EntryFailuresAbsorbed ==
    pc = "done" /\ (\A f \in faults : f.kind \in EntryFaultKinds /\ f.at # Root) =>
        /\ err = Nil
        /\ \A d \in DOMAIN uevents : ~Struck(d) => d \in ReturnedPaths

\* The statement of C6 about the scan that has ended.
OneDevicePerMarker ==
        /\ err = Nil
        /\ ReturnedPaths = DOMAIN uevents
        /\ Len(devices) = Cardinality(DOMAIN uevents)
        /\ \A i \in 1..Len(devices) : Returned[i].Devpath = devices[i]

\* C6: ScanDevices returns exactly one device for each directory that holds a
\* uevent file, with that directory's path as Devpath: no Devpath twice, as
\* many devices as marker-bearing directories, a nil error.  Stated of the
\* scans whose walk lists every directory and whose readAttrs lists every
\* device directory, so that no violation rests on the failures of C4 and C5.
C6_OneDevicePerMarker ==
    pc = "done" /\ (\A f \in faults : f.kind \in EntryFaultKinds \ {"listAttrs"}) =>
        OneDevicePerMarker

\* C6, scans without I/O failures: the statement of C6 holds of them.
C6_OneDevicePerMarkerNoFailure == pc = "done" /\ faults = {} => OneDevicePerMarker

\* C7: for every returned device d, the references in d.Children are exactly
\* the returned devices whose Parent is d, each once; a device with no Parent
\* is in no Children list.
C7_ChildrenMirrorParent ==
    ReturnedOk =>
        \A p \in ReturnedPaths :
            LET ch == devicesMap[p].Children
            IN  /\ ChildSet(devicesMap[p]) = {c \in ReturnedPaths : devicesMap[c].Parent = p}
                /\ \A i, j \in 1..Len(ch) : ch[i] = ch[j] => i = j

\* C7 witness: a returned device holding two children, beside a device with no Parent.
C7_Witness ==
    /\ ReturnedOk
    /\ \E p \in ReturnedPaths : Len(devicesMap[p].Children) >= 2
    /\ \E c \in ReturnedPaths : devicesMap[c].Parent = NoDevice

\* C8: a device whose directory has no dev file gets no runtime-database
\* enrichment, whatever the runtime database holds: no Tags, no
\* UsecInitialized, and as Env exactly the pairs of its marker file.
C8_NoDevNoEnrichment ==
    ReturnedOk =>
        \A d \in ReturnedPaths :
            d \notin DOMAIN devs =>
                /\ devicesMap[d].Tags = <<>>
                /\ devicesMap[d].UsecInitialized = <<>>
                /\ EnvIs(devicesMap[d].Env, MarkerLinesOf(d), <<>>)

\* C9: for every device and key k, Env[k] is the value of the last E:k=...
\* line of the device's record when there is one, otherwise the value of the
\* last k=... line of its marker file, and k is absent when neither has it;
\* the value is everything after the first "=".
C9_EnvMerge ==
    ReturnedOk =>
        \A d \in ReturnedPaths :
            EnvIs(devicesMap[d].Env, MarkerLinesOf(d), ELines(RecordLinesOf(d)))

\* C9, devices whose marker and dev file are both there when read: the
\* statement of C9 holds of them.
C9_EnvMergeWithDevFile ==
    ReturnedOk =>
        \A d \in ReturnedPaths :
            d \in DOMAIN devs /\ ~Fault("ueventGone", d) =>
                EnvIs(devicesMap[d].Env, MarkerLinesOf(d), ELines(RecordLinesOf(d)))

\* C10: for a fixed set of discovered Devpaths, every order of the linker's
\* range loop gives each device the Parent and the set of Children this run
\* gave it.
C10_OrderIndependent ==
    ReturnedOk =>
        \A o \in Orders(DOMAIN devicesMap) :
            LET t == MakeTree(WalkOutput, o)
            IN  \A k \in DOMAIN devicesMap :
                    /\ t[k].Parent = devicesMap[k].Parent
                    /\ ChildSet(t[k]) = ChildSet(devicesMap[k])

\* C10 witness: the run visited a child before the parent it was linked to.
C10_Witness ==
    /\ ReturnedOk
    /\ \E i, j \in 1..Len(devices) : i < j /\ devicesMap[devices[i]].Parent = devices[j]

====
